---- MODULE Spec2Model ----
(***************************************************************************)
(* Model of mavros_extras/mavteleop.py: the joystick teleoperation node.   *)
(* main() parses the mode flag, the selected *_control function loads the  *)
(* maps and subscribes joy_cb, and every joystick sample runs joy_cb once. *)
(*                                                                         *)
(* Python floats are modelled as exact rationals <<n, d>> in lowest terms  *)
(* with d > 0; every value that occurs is dyadic, so no rounding is lost.  *)
(* Python lists are 0-based: list index i is element i + 1 of a sequence.  *)
(***************************************************************************)
EXTENDS Integers, Sequences, FiniteSets, TLC

VARIABLES
    pc,               \* "start" | "usage_error" | "crashed" | "spin"
    args,             \* the mode flags given on the command line
    mode,             \* the *_control function main() entered, or "none"
    params,           \* the private parameters set on the parameter server
    axes_map,         \* module global axes_map
    axes_scale,       \* module global axes_scale
    button_map,       \* module global button_map
    rc_channels,      \* module global rc_channels (name -> RCChan)
    rc_modes,         \* rc_override_control local: the list of RCMode
    thd_reverse,      \* attitude_setpoint_control: which thd_normalize was defined
    rc,               \* rc_override_control local: OverrideRCIn().channels
    px, py, pz,       \* module globals px, py, pz
    joy,              \* the sample handed to the last joy_cb
    cb,               \* how the last joy_cb ended: "none" | "done" | an exception
    rpyt,             \* the values of the RPYT debug line the last joy_cb logged
    pub,              \* the messages the last joy_cb published, in order
    cmds,             \* the values the last joy_cb passed to command.arming
    svc,              \* how that command.arming call ended, or "none"
    hist              \* position mode: the axes of every sample joy_cb integrated

vars == <<pc, args, mode, params, axes_map, axes_scale, button_map,
          rc_channels, rc_modes, thd_reverse, rc, px, py, pz, joy, cb, rpyt,
          pub, cmds, svc, hist>>

----------------------------------------------------------------------------
(* Bounds of the model *)

\* joy samples the position integrator accepts before the model stops feeding it
MaxSamples == 3
\* length of Joy.axes
NumAxes == 5
\* length of Joy.buttons
NumButtons == 5

\* length of OverrideRCIn.channels
NumChannels == 8

----------------------------------------------------------------------------
(* Float arithmetic *)

Abs(x) == IF x < 0 THEN -x ELSE x

RECURSIVE GCD(_, _)
GCD(a, b) == IF b = 0 THEN a ELSE GCD(b, a % b)

Rat(n, d) ==
    LET s == IF d < 0 THEN -1 ELSE 1
        g == GCD(Abs(n), Abs(d))
    IN  <<(s * n) \div g, (s * d) \div g>>

FAdd(a, b) == Rat(a[1] * b[2] + b[1] * a[2], a[2] * b[2])
FSub(a, b) == Rat(a[1] * b[2] - b[1] * a[2], a[2] * b[2])
FMul(a, b) == Rat(a[1] * b[1], a[2] * b[2])
FDiv(a, b) == Rat(a[1] * b[2], a[2] * b[1])
FLeq(a, b) == a[1] * b[2] <= b[1] * a[2]

\* an int or float literal of the source
Num(n) == <<n, 1>>

----------------------------------------------------------------------------
(* Python list indexing *)

InRange(s, i) == -Len(s) <= i /\ i < Len(s)

Index(s, i) == IF i >= 0 THEN s[i + 1] ELSE s[Len(s) + i + 1]

----------------------------------------------------------------------------
(* Pure functions of the module *)

arduino_map_swapped(x, inmin, inmax, outmin, outmax) ==
    FAdd(FDiv(FMul(FSub(x, inmin), FSub(inmax, inmin)), FSub(outmax, outmin)), outmin)

arduino_map(x, inmin, inmax, outmin, outmax) ==
    FAdd(FDiv(FMul(FSub(x, inmin), FSub(outmax, outmin)), FSub(inmax, inmin)), outmin)

\* RCChan.__init__
RCChan(name, chan, min_pos) ==
    [name |-> name, chan |-> chan, min |-> Num(1000), max |-> Num(2000),
     min_pos |-> min_pos]

\* RCChan.calc_us
calc_us(ch, pos) == arduino_map(pos, ch.min_pos, Num(1), ch.min, ch.max)

\* RCMode.__init__
RCMode(name, joy_flags, rc_channel, rc_value) ==
    [name |-> name, joy_flags |-> joy_flags, rc_channel |-> rc_channel,
     rc_value |-> rc_value]

\* RCMode.is_toggled
is_toggled(m, j) ==
    \A k \in 1..Len(m.joy_flags) :
        Index(j.buttons, m.joy_flags[k][1]) = m.joy_flags[k][2]

\* RCMode.apply_mode, on the channels list
apply_mode(m, j, channels) ==
    IF is_toggled(m, j)
    THEN [channels EXCEPT ![m.rc_channel + 1] = Num(m.rc_value)]
    ELSE channels

AxisNames == {"roll", "pitch", "yaw", "throttle"}

DefaultAxesMap == [roll |-> 3, pitch |-> 4, yaw |-> 0, throttle |-> 1]

DefaultAxesScale ==
    [roll |-> Num(1), pitch |-> Num(1), yaw |-> Num(1), throttle |-> Num(1)]

DefaultButtonMap == [arm |-> 0, disarm |-> 1, takeoff |-> 2, land |-> 3, enable |-> 4]

DefaultRcChannels ==
    [roll     |-> RCChan("roll", 0, Num(-1)),
     pitch    |-> RCChan("pitch", 1, Num(-1)),
     yaw      |-> RCChan("yaw", 3, Num(-1)),
     throttle |-> RCChan("throttle", 2, Num(0))]

\* get_axis
get_axis(j, n) == FMul(Index(j.axes, axes_map[n]), axes_scale[n])

\* get_axis raises IndexError
get_axis_raises(j, n) == ~InRange(j.axes, axes_map[n])

\* get_buttons
get_buttons(j, n) == Index(j.buttons, button_map[n])

\* get_buttons raises IndexError
get_buttons_raises(j, n) == ~InRange(j.buttons, button_map[n])

----------------------------------------------------------------------------
(* The parameter server: rospy.get_param(name, default) *)

NoParams == [k \in {} |-> 0]

get_param(ns, k, default) == IF k \in DOMAIN ns THEN ns[k] ELSE default

\* load_map
load_map(m, ns) == [k \in DOMAIN m |-> get_param(ns, k, m[k])]

\* RCChan.load_param
RCChan_load_param(ch) ==
    [ch EXCEPT !.chan = get_param(params.rc_map, ch.name, ch.chan),
               !.min  = get_param(params.rc_min, ch.name, ch.min),
               !.max  = get_param(params.rc_max, ch.name, ch.max)]

\* the orders in which dict.items() may yield n entries
ItemsOrders(n) == {f \in [1..n -> 1..n] : \A a, b \in 1..n : f[a] = f[b] => a = b}

\* RCMode.load_param: yaml lists the entries as written, items() yields them in order o
RCMode_load_param(yaml, o) ==
    [i \in 1..Len(yaml) |->
        RCMode(yaml[o[i]].name, yaml[o[i]].joy_flags,
               yaml[o[i]].rc_channel, yaml[o[i]].rc_value)]

\* the ~rc_modes/ namespace as written in the configuration
OverlayYaml ==
    << [name |-> "hold",   joy_flags |-> << <<0, 1>> >>,            rc_channel |-> 2, rc_value |-> 1500],
       [name |-> "aux_hi", joy_flags |-> << <<1, 1>> >>,            rc_channel |-> 5, rc_value |-> 1800],
       [name |-> "aux_lo", joy_flags |-> << <<0, 1>>, <<1, 1>> >>,  rc_channel |-> 5, rc_value |-> 1200] >>

DefaultParams ==
    [axes_map |-> NoParams, axes_scale |-> NoParams, button_map |-> NoParams,
     rc_map |-> NoParams, rc_min |-> NoParams, rc_max |-> NoParams,
     rc_modes |-> [yaml |-> OverlayYaml], setpoint_attitude |-> NoParams]

ParamServers ==
    { DefaultParams,
      [DefaultParams EXCEPT !.axes_map = [roll |-> NumAxes]],
      [DefaultParams EXCEPT !.axes_scale = [pitch |-> Num(2), throttle |-> <<1, 2>>],
                            !.setpoint_attitude = [reverse_throttle |-> TRUE]],
      [DefaultParams EXCEPT !.button_map = [arm |-> 1, disarm |-> 0],
                            !.rc_map = [roll |-> 4],
                            !.rc_min = [roll |-> Num(1100)],
                            !.rc_max = [roll |-> Num(1900)],
                            !.setpoint_attitude = [reverse_throttle |-> TRUE]],
      [DefaultParams EXCEPT !.button_map = [disarm |-> NumButtons],
                            !.rc_modes = NoParams] }

----------------------------------------------------------------------------
(* The joystick: the samples the joy topic delivers *)

\* full deflection either way, and the stick at rest
AxisValues == { <<-1, 1>>, <<0, 1>>, <<1, 1>> }

\* the axes of the two sticks and the buttons the operator presses
Sticks == {0, 1, 3, 4}
Pressable == {0, 1}

Centred == [i \in 1..NumAxes |-> Num(0)]

\* both sticks pushed half-way on every axis
HalfWay == [i \in 1..NumAxes |-> IF (i - 1) \in Sticks THEN <<1, 2>> ELSE Num(0)]

StickPositions ==
    { [Centred EXCEPT ![a + 1] = v] : a \in Sticks, v \in AxisValues } \cup {HalfWay}

ButtonStates ==
    { [i \in 1..NumButtons |-> IF (i - 1) \in S THEN 1 ELSE 0] : S \in SUBSET Pressable }

JoySamples == [axes : StickPositions, buttons : ButtonStates]

NoJoy == [axes |-> <<>>, buttons |-> <<>>]

----------------------------------------------------------------------------
(* main *)

ModeFlags == {"rc_override", "sp_attitude", "sp_velocity", "sp_position"}

\* a mode group that is not exclusive: any non-empty choice of flags parses
mode_group_not_exclusive(argv) == argv # {}

\* parser.parse_args succeeds: add_mutually_exclusive_group(required=True)
mode_group(argv) == Cardinality(argv) = 1

\* the if/elif chain of main
dispatch(argv) ==
    IF "rc_override" \in argv THEN "rc"
    ELSE IF "sp_attitude" \in argv THEN "att"
    ELSE IF "sp_velocity" \in argv THEN "vel"
    ELSE IF "sp_position" \in argv THEN "pos"
    ELSE "none"

\* the three load_map calls every *_control function starts with
LoadMaps ==
    /\ axes_map' = load_map(axes_map, params.axes_map)
    /\ axes_scale' = load_map(axes_scale, params.axes_scale)
    /\ button_map' = load_map(button_map, params.button_map)

\* parse_args exits with a usage error
main_usage_error ==
    /\ pc = "start"
    /\ \E argv \in SUBSET ModeFlags :
        /\ ~mode_group(argv)
        /\ args' = argv
    /\ pc' = "usage_error"
    /\ UNCHANGED <<mode, params, axes_map, axes_scale, button_map, rc_channels,
                   rc_modes, thd_reverse, rc, px, py, pz, joy, cb, rpyt, pub,
                   cmds, svc, hist>>

\* main calls rc_override_control, which runs up to rospy.spin()
rc_override_control ==
    /\ pc = "start"
    /\ \E argv \in SUBSET ModeFlags :
        /\ mode_group(argv)
        /\ dispatch(argv) = "rc"
        /\ args' = argv
    /\ mode' = "rc"
    /\ LoadMaps
    /\ rc_channels' = [n \in DOMAIN rc_channels |-> RCChan_load_param(rc_channels[n])]
    /\ IF "yaml" \in DOMAIN params.rc_modes
       THEN /\ \E o \in ItemsOrders(Len(params.rc_modes.yaml)) :
                rc_modes' = RCMode_load_param(params.rc_modes.yaml, o)
            /\ pc' = "spin"
       ELSE \* rospy.get_param(ns) raises KeyError
            /\ rc_modes' = rc_modes
            /\ pc' = "crashed"
    /\ rc' = [i \in 1..NumChannels |-> Num(0)]
    /\ UNCHANGED <<params, thd_reverse, px, py, pz, joy, cb, rpyt, pub, cmds, svc,
                   hist>>

\* main calls attitude_setpoint_control
attitude_setpoint_control ==
    /\ pc = "start"
    /\ \E argv \in SUBSET ModeFlags :
        /\ mode_group(argv)
        /\ dispatch(argv) = "att"
        /\ args' = argv
    /\ mode' = "att"
    /\ LoadMaps
    /\ thd_reverse' = get_param(params.setpoint_attitude, "reverse_throttle", FALSE)
    /\ pc' = "spin"
    /\ UNCHANGED <<params, rc_channels, rc_modes, rc, px, py, pz, joy, cb, rpyt,
                   pub, cmds, svc, hist>>

\* main calls velocity_setpoint_control
velocity_setpoint_control ==
    /\ pc = "start"
    /\ \E argv \in SUBSET ModeFlags :
        /\ mode_group(argv)
        /\ dispatch(argv) = "vel"
        /\ args' = argv
    /\ mode' = "vel"
    /\ LoadMaps
    /\ pc' = "spin"
    /\ UNCHANGED <<params, rc_channels, rc_modes, thd_reverse, rc, px, py, pz,
                   joy, cb, rpyt, pub, cmds, svc, hist>>

\* main calls position_setpoint_control
position_setpoint_control ==
    /\ pc = "start"
    /\ \E argv \in SUBSET ModeFlags :
        /\ mode_group(argv)
        /\ dispatch(argv) = "pos"
        /\ args' = argv
    /\ mode' = "pos"
    /\ LoadMaps
    /\ pc' = "spin"
    /\ UNCHANGED <<params, rc_channels, rc_modes, thd_reverse, rc, px, py, pz,
                   joy, cb, rpyt, pub, cmds, svc, hist>>

\* some get_axis call of a joy_cb raises IndexError
axes_raise(j) == \E n \in AxisNames : get_axis_raises(j, n)

----------------------------------------------------------------------------
(* rc_override_control.joy_cb *)

\* set_chan
set_chan(channels, n, v) ==
    [channels EXCEPT ![rc_channels[n].chan + 1] = calc_us(rc_channels[n], v)]

\* the for loop over rc_modes, first-write-wins
RECURSIVE apply_modes_reversed(_, _, _)
apply_modes_reversed(modes, j, channels) ==
    IF modes = <<>> THEN channels
    ELSE apply_mode(Head(modes), j, apply_modes_reversed(Tail(modes), j, channels))

\* the for loop over rc_modes
RECURSIVE apply_modes(_, _, _)
apply_modes(modes, j, channels) ==
    IF modes = <<>> THEN channels
    ELSE apply_modes(Tail(modes), j, apply_mode(Head(modes), j, channels))

\* the local throttle of rc_override_control.joy_cb
rc_throttle(j) == arduino_map(get_axis(j, "throttle"), Num(-1), Num(1), Num(0), Num(1))

\* the four set_chan calls
set_chans(j, channels) ==
    LET throttle == rc_throttle(j)
        c1 == set_chan(channels, "roll", get_axis(j, "roll"))
        c2 == set_chan(c1, "pitch", get_axis(j, "pitch"))
        c3 == set_chan(c2, "yaw", get_axis(j, "yaw"))
    IN  set_chan(c3, "throttle", throttle)

\* the overlays written before the computed channel values
rc_frame_overlays_first(j, channels) == set_chans(j, apply_modes(rc_modes, j, channels))

\* a frame built anew for every sample
rc_frame_rebuilt(j, channels) ==
    apply_modes(rc_modes, j, set_chans(j, [i \in 1..NumChannels |-> Num(0)]))

\* rc.channels when joy_cb publishes
rc_frame(j, channels) == apply_modes(rc_modes, j, set_chans(j, channels))

rc_joy_cb ==
    /\ pc = "spin"
    /\ mode = "rc"
    /\ \E j \in JoySamples :
        /\ joy' = j
        /\ IF axes_raise(j)
           THEN /\ cb' = "IndexError"
                /\ rpyt' = <<>>
                /\ pub' = <<>>
                /\ rc' = rc
           ELSE /\ rpyt' = <<get_axis(j, "roll"), get_axis(j, "pitch"),
                             get_axis(j, "yaw"), rc_throttle(j)>>
                /\ rc' = rc_frame(j, rc)
                /\ pub' = << [topic |-> "rc/override", channels |-> rc'] >>
                /\ cb' = "done"
    /\ UNCHANGED <<pc, args, mode, params, axes_map, axes_scale, button_map,
                   rc_channels, rc_modes, thd_reverse, px, py, pz, cmds, svc, hist>>

----------------------------------------------------------------------------
(* attitude_setpoint_control.joy_cb *)

\* thd_normalize defined without looking at reverse_throttle
thd_normalize_always(v) == arduino_map(v, Num(-1), Num(1), Num(0), Num(1))

\* the thd_normalize that attitude_setpoint_control defined
thd_normalize(v) ==
    IF thd_reverse THEN v ELSE arduino_map(v, Num(-1), Num(1), Num(0), Num(1))

\* how command.arming may end
ArmingOutcomes == {"success", "failure", "ServiceException"}

\* arm: the exception it ends with. The result of command.arming is bound to
\* no name and fault is defined nowhere in the module.
arm(outcome) ==
    IF outcome = "ServiceException"
    THEN "NameError"    \* fault(ex): name 'fault' is not defined
    ELSE "NameError"    \* ret.success: name 'ret' is not defined

\* reading the arm button, or the disarm button after it, raises IndexError
buttons_raise(j) ==
    \/ get_buttons_raises(j, "arm")
    \/ /\ get_buttons(j, "arm") # 1
       /\ get_buttons_raises(j, "disarm")

\* two independent ifs in place of if/elif
arm_requests_independent(j) ==
    (IF get_buttons(j, "arm") = 1 THEN <<TRUE>> ELSE <<>>)
    \o (IF ~get_buttons_raises(j, "disarm") /\ get_buttons(j, "disarm") = 1
        THEN <<FALSE>> ELSE <<>>)

\* the if/elif on the arm and disarm buttons: the values passed to arm()
arm_requests(j) ==
    IF get_buttons(j, "arm") = 1 THEN <<TRUE>>
    ELSE IF get_buttons(j, "disarm") = 1 THEN <<FALSE>>
    ELSE <<>>

\* tf.transformations.quaternion_from_euler, kept symbolic
quaternion_from_euler(ai, aj, ak) == [euler |-> <<ai, aj, ak>>]

att_joy_cb ==
    /\ pc = "spin"
    /\ mode = "att"
    /\ \E j \in JoySamples, outcome \in ArmingOutcomes :
        /\ joy' = j
        /\ IF axes_raise(j)
           THEN /\ cb' = "IndexError"
                /\ rpyt' = <<>>
                /\ pub' = <<>>
                /\ cmds' = <<>>
                /\ svc' = "none"
           ELSE /\ rpyt' = <<get_axis(j, "roll"), get_axis(j, "pitch"),
                             get_axis(j, "yaw"),
                             thd_normalize(get_axis(j, "throttle"))>>
                /\ IF buttons_raise(j)
                   THEN /\ cb' = "IndexError"
                        /\ pub' = <<>>
                        /\ cmds' = <<>>
                        /\ svc' = "none"
                   ELSE IF arm_requests(j) # <<>>
                   THEN /\ cmds' = arm_requests(j)
                        /\ svc' = outcome
                        /\ cb' = arm(outcome)
                        /\ pub' = <<>>
                   ELSE /\ cmds' = <<>>
                        /\ svc' = "none"
                        /\ cb' = "done"
                        /\ pub' = << [topic |-> "setpoint_attitude/attitude",
                                      orientation |-> quaternion_from_euler(
                                          rpyt'[1], rpyt'[2], rpyt'[3])],
                                     [topic |-> "setpoint_attitude/att_throttle",
                                      data |-> rpyt'[4]] >>
    /\ UNCHANGED <<pc, args, mode, params, axes_map, axes_scale, button_map,
                   rc_channels, rc_modes, thd_reverse, rc, px, py, pz, hist>>

----------------------------------------------------------------------------
(* velocity_setpoint_control.joy_cb *)

vel_joy_cb ==
    /\ pc = "spin"
    /\ mode = "vel"
    /\ \E j \in JoySamples :
        /\ joy' = j
        /\ IF axes_raise(j)
           THEN /\ cb' = "IndexError"
                /\ rpyt' = <<>>
                /\ pub' = <<>>
           ELSE /\ rpyt' = <<get_axis(j, "roll"), get_axis(j, "pitch"),
                             get_axis(j, "yaw"), get_axis(j, "throttle")>>
                /\ cb' = "done"
                /\ pub' = << [topic |-> "setpoint_velocity/cmd_vel",
                              linear |-> <<rpyt'[1], rpyt'[2], rpyt'[4]>>,
                              angular |-> <<Num(0), Num(0), rpyt'[3]>>] >>
    /\ UNCHANGED <<pc, args, mode, params, axes_map, axes_scale, button_map,
                   rc_channels, rc_modes, thd_reverse, rc, px, py, pz, cmds, svc,
                   hist>>

----------------------------------------------------------------------------
(* position_setpoint_control.joy_cb *)

\* px += pitch in place of px -= pitch
integrate_forward(p, j) ==
    << FAdd(p[1], get_axis(j, "pitch")),
       FAdd(p[2], get_axis(j, "roll")),
       FAdd(p[3], get_axis(j, "throttle")) >>

\* px -= pitch; py += roll; pz += throttle
integrate(p, j) ==
    << FSub(p[1], get_axis(j, "pitch")),
       FAdd(p[2], get_axis(j, "roll")),
       FAdd(p[3], get_axis(j, "throttle")) >>

pos_joy_cb ==
    /\ pc = "spin"
    /\ mode = "pos"
    /\ Len(hist) < MaxSamples
    /\ \E j \in JoySamples :
        /\ joy' = j
        /\ IF axes_raise(j)
           THEN /\ cb' = "IndexError"
                /\ rpyt' = <<>>
                /\ pub' = <<>>
                /\ UNCHANGED <<px, py, pz, hist>>
           ELSE /\ rpyt' = <<get_axis(j, "roll"), get_axis(j, "pitch"),
                             get_axis(j, "yaw"), get_axis(j, "throttle")>>
                /\ px' = integrate(<<px, py, pz>>, j)[1]
                /\ py' = integrate(<<px, py, pz>>, j)[2]
                /\ pz' = integrate(<<px, py, pz>>, j)[3]
                /\ hist' = Append(hist, j.axes)
                /\ cb' = "done"
                /\ pub' = << [topic |-> "setpoint_position/local",
                              position |-> <<px', py', pz'>>,
                              orientation |-> quaternion_from_euler(
                                  Num(0), Num(0), rpyt'[3])] >>
    /\ UNCHANGED <<pc, args, mode, params, axes_map, axes_scale, button_map,
                   rc_channels, rc_modes, thd_reverse, rc, cmds, svc>>

----------------------------------------------------------------------------
(* The node *)

Init ==
    /\ pc = "start"
    /\ args = {}
    /\ mode = "none"
    /\ params \in ParamServers
    /\ axes_map = DefaultAxesMap
    /\ axes_scale = DefaultAxesScale
    /\ button_map = DefaultButtonMap
    /\ rc_channels = DefaultRcChannels
    /\ rc_modes = <<>>
    /\ thd_reverse = FALSE
    /\ rc = <<>>
    /\ px = Num(0)
    /\ py = Num(0)
    /\ pz = Num(0)
    /\ joy = NoJoy
    /\ cb = "none"
    /\ rpyt = <<>>
    /\ pub = <<>>
    /\ cmds = <<>>
    /\ svc = "none"
    /\ hist = <<>>

Next ==
    \/ main_usage_error
    \/ rc_override_control
    \/ attitude_setpoint_control
    \/ velocity_setpoint_control
    \/ position_setpoint_control
    \/ rc_joy_cb
    \/ att_joy_cb
    \/ vel_joy_cb
    \/ pos_joy_cb

Spec == Init /\ [][Next]_vars

----------------------------------------------------------------------------
(* Properties *)

\* the raw value of logical axis n in the last sample, and its scaled value
RawAxis(n) == Index(joy.axes, axes_map[n])
Scaled(n) == FMul(RawAxis(n), axes_scale[n])

\* (v + 1) / 2, the unipolar renormalization of a stick value
Unipolar(v) == FDiv(FAdd(v, Num(1)), Num(2))

\* logical button n is pressed in the last sample
Pressed(n) == InRange(joy.buttons, button_map[n]) /\ Index(joy.buttons, button_map[n]) = 1

\* the frame the last rc joy_cb published
Frame == pub[1].channels

\* overlay m of list l fires on the last sample; another overlay of l that fires
\* targets the same channel as l[i]
Fires(m) == \A k \in 1..Len(m.joy_flags) :
                Index(joy.buttons, m.joy_flags[k][1]) = m.joy_flags[k][2]
Contended(l, i) ==
    \E k \in 1..Len(l) : k # i /\ Fires(l[k]) /\ l[k].rc_channel = l[i].rc_channel

\* the value the calibration of axis n writes for the last sample
Calibrated(n) ==
    LET ch == rc_channels[n]
        v  == IF n = "throttle" THEN Unipolar(Scaled(n)) ELSE Scaled(n)
    IN  FAdd(FDiv(FMul(FSub(v, ch.min_pos), FSub(ch.max, ch.min)),
                  FSub(Num(1), ch.min_pos)), ch.min)

\* C1: in attitude mode every sample whose configured indices are in range,
\* the arm or disarm button pressed or not and however the arming service
\* answers, is processed to the end: joy_cb completes and publishes both the
\* pose and the throttle message.
C1_ArmNeverAborts ==
    (mode = "att" /\ cb \notin {"none", "IndexError"})
        => (cb = "done" /\ Len(pub) = 2)

\* C2: in RC-override mode the overlays are applied after calibration: an
\* overlay that fires puts its forced value on its target channel of the
\* published frame whatever calibration computed there, and where an overlay
\* does not fire the published frame holds the value calibration computed for
\* that channel (in both cases, no other firing overlay targeting the channel).
C2_OverlayAfterCalibration ==
    (mode = "rc" /\ cb = "done") =>
        \A i \in 1..Len(rc_modes) :
            LET m == rc_modes[i] IN
            ~Contended(rc_modes, i) =>
                /\ Fires(m) => Frame[m.rc_channel + 1] = Num(m.rc_value)
                /\ ~Fires(m) =>
                     \A n \in AxisNames :
                        rc_channels[n].chan = m.rc_channel
                            => Frame[m.rc_channel + 1] = Calibrated(n)

\* C2 witness: "hold" fires on a sample whose throttle stick is fully up, so
\* calibration computed 2000 for channel 2 and the frame holds the forced 1500.
C2_Witness ==
    /\ mode = "rc" /\ cb = "done"
    /\ rc_channels = DefaultRcChannels
    /\ Index(joy.buttons, 0) = 1
    /\ Calibrated("throttle") = Num(2000)
    /\ Frame[3] = Num(1500)

\* the last firing overlay of list l that targets channel c decides the frame
LastWriteWins(l) ==
    \A a, b \in 1..Len(l) :
        ( /\ a < b
          /\ l[a].rc_channel = l[b].rc_channel
          /\ Fires(l[a]) /\ Fires(l[b])
          /\ \A k \in (b + 1)..Len(l) :
                ~(Fires(l[k]) /\ l[k].rc_channel = l[b].rc_channel) )
        => Frame[l[b].rc_channel + 1] = Num(l[b].rc_value)

\* C3 as claimed: overlays are evaluated in configuration order, so of two
\* firing overlays with the same target channel the frame holds the value of
\* the one written later in the configuration.
C3_ConfigurationOrderWins ==
    (mode = "rc" /\ cb = "done") => LastWriteWins(params.rc_modes.yaml)

\* C3 as amended: overlays are evaluated in the order of the list that
\* RCMode.load_param built from the items() of the parameter dictionary, and
\* of two firing overlays with the same target channel the frame holds the
\* value of the one later in that list.
C3_LoadedOrderWins ==
    (mode = "rc" /\ cb = "done") => LastWriteWins(rc_modes)

\* C3 witness: both overlays on channel 5 fire, the list holds aux_lo (written
\* last in the configuration) before aux_hi, and the frame holds aux_hi's value.
C3_Witness ==
    /\ mode = "rc" /\ cb = "done"
    /\ \E a, b \in 1..Len(rc_modes) :
          a < b /\ rc_modes[a].name = "aux_lo" /\ rc_modes[b].name = "aux_hi"
    /\ Index(joy.buttons, 0) = 1 /\ Index(joy.buttons, 1) = 1
    /\ Frame[6] = Num(1800)

\* the sum over the integrated samples h of logical axis n, scaled
RECURSIVE SumAxis(_, _)
SumAxis(h, n) ==
    IF h = <<>> THEN Num(0)
    ELSE FAdd(SumAxis(Tail(h), n), FMul(Index(Head(h), axes_map[n]), axes_scale[n]))

\* every integrated sample had pitch 1, roll 0 and throttle 0
AllPitchOne ==
    \A k \in 1..Len(hist) :
        /\ FMul(Index(hist[k], axes_map.pitch), axes_scale.pitch) = Num(1)
        /\ Index(hist[k], axes_map.roll) = Num(0)
        /\ Index(hist[k], axes_map.throttle) = Num(0)

\* C4: in position mode the integrator starts at (0,0,0) and after the samples
\* integrated so far holds x = -(sum of pitch), y = sum of roll, z = sum of
\* throttle; the position published for a sample is the integrator including
\* that sample; three samples with pitch 1, roll 0, throttle 0 give (-3,0,0).
C4_Integrator ==
    (mode = "pos") =>
        /\ px = FSub(Num(0), SumAxis(hist, "pitch"))
        /\ py = SumAxis(hist, "roll")
        /\ pz = SumAxis(hist, "throttle")
        /\ hist = <<>> => <<px, py, pz>> = <<Num(0), Num(0), Num(0)>>
        /\ cb = "done" => pub[1].position = <<px, py, pz>>
        /\ (Len(hist) = 3 /\ AllPitchOne) => <<px, py, pz>> = << <<-3, 1>>, <<0, 1>>, <<0, 1>> >>

\* C4 witness: three samples with pitch 1 have been integrated to (-3,0,0).
C4_Witness ==
    /\ mode = "pos" /\ cb = "done"
    /\ Len(hist) = 3 /\ AllPitchOne
    /\ pub[1].position = << <<-3, 1>>, <<0, 1>>, <<0, 1>> >>

\* the strategy a single mode flag names
Named(f) ==
    CASE f = "rc_override" -> "rc"
      [] f = "sp_attitude" -> "att"
      [] f = "sp_velocity" -> "vel"
      [] f = "sp_position" -> "pos"

\* C5: once main has run, zero or several mode flags have ended in a usage
\* error with no strategy started and no sample processed; exactly one flag
\* has started the strategy it names; and a started strategy is never replaced.
C5_ExclusiveSelection ==
    [][ /\ pc' # "start" =>
            /\ Cardinality(args') # 1 =>
                  /\ pc' = "usage_error" /\ mode' = "none"
                  /\ cb' = "none" /\ pub' = <<>> /\ joy' = NoJoy
            /\ Cardinality(args') = 1 =>
                  /\ pc' # "usage_error"
                  /\ \A f \in args' : mode' = Named(f)
        /\ pc # "start" => (mode' = mode /\ args' = args) ]_vars

\* C5 witness: two mode flags were given and main ended in the usage error.
C5_Witness == pc = "usage_error" /\ Cardinality(args) = 2 /\ mode = "none"

\* C6: no sample fails because a configured axis or button index lies outside
\* the sample's arrays (such a configuration is rejected when it is loaded).
C6_NoIndexErrorPerSample == cb # "IndexError"

\* C7 as claimed: in attitude mode a pressed arm button issues an arm command
\* and a pressed disarm button issues a disarm command, for every combination
\* of the two buttons; no command is issued when neither is pressed.
C7_EachPressedButtonCommands ==
    (mode = "att" /\ cb \in {"done", "NameError"}) =>
        /\ Pressed("arm") => \E k \in 1..Len(cmds) : cmds[k] = TRUE
        /\ Pressed("disarm") => \E k \in 1..Len(cmds) : cmds[k] = FALSE
        /\ (~Pressed("arm") /\ ~Pressed("disarm")) => cmds = <<>>

\* C7 as amended: a pressed arm button issues an arm command and nothing else;
\* a pressed disarm button issues a disarm command only when the arm button is
\* not pressed; no command is issued when neither is pressed.
C7_ArmBeforeDisarm ==
    (mode = "att" /\ cb \in {"done", "NameError"}) =>
        /\ Pressed("arm") => cmds = <<TRUE>>
        /\ (~Pressed("arm") /\ Pressed("disarm")) => cmds = <<FALSE>>
        /\ (~Pressed("arm") /\ ~Pressed("disarm")) => cmds = <<>>

\* C7 witness: both buttons pressed, and only the arm command was issued.
C7_Witness ==
    /\ mode = "att"
    /\ Pressed("arm") /\ Pressed("disarm")
    /\ cmds = <<TRUE>>

\* the reverse_throttle parameter as the configuration sets it
ReverseThrottle == get_param(params.setpoint_attitude, "reverse_throttle", FALSE)

\* C8 as claimed: in RC-override and attitude mode the throttle is (v + 1) / 2
\* of the scaled stick value v when reverse-throttle is false and v itself when
\* it is true; velocity and position mode use v.
C8_RenormFollowsFlag ==
    (cb = "done") =>
        /\ mode \in {"rc", "att"} =>
              rpyt[4] = IF ReverseThrottle THEN Scaled("throttle")
                        ELSE Unipolar(Scaled("throttle"))
        /\ mode \in {"vel", "pos"} => rpyt[4] = Scaled("throttle")

\* C8 as amended: attitude mode follows the flag (false: -1 maps to 0, 1 maps
\* to 1, v to (v + 1) / 2; true: v unchanged); RC-override mode renormalizes
\* whatever the flag says; velocity and position mode use v.
C8_RenormPerMode ==
    (cb = "done") =>
        /\ mode = "att" =>
              /\ rpyt[4] = IF ReverseThrottle THEN Scaled("throttle")
                           ELSE Unipolar(Scaled("throttle"))
              /\ (~ReverseThrottle /\ Scaled("throttle") = Num(-1)) => rpyt[4] = Num(0)
              /\ (~ReverseThrottle /\ Scaled("throttle") = Num(1)) => rpyt[4] = Num(1)
              /\ pub[2].data = rpyt[4]
        /\ mode = "rc" => rpyt[4] = Unipolar(Scaled("throttle"))
        /\ mode \in {"vel", "pos"} => rpyt[4] = Scaled("throttle")

\* C8 witness: attitude mode with reverse-throttle set, the stick fully down,
\* and the throttle published is the raw -1.
C8_Witness ==
    /\ mode = "att" /\ cb = "done"
    /\ ReverseThrottle
    /\ RawAxis("throttle") = Num(-1)
    /\ pub[2].data = Scaled("throttle")

\* RC-override at its defaults, the last sample published with no overlay firing
RcDefaultPlain ==
    /\ mode = "rc" /\ cb = "done"
    /\ axes_map = DefaultAxesMap /\ axes_scale = DefaultAxesScale
    /\ rc_channels = DefaultRcChannels
    /\ \A i \in 1..Len(rc_modes) : ~Fires(rc_modes[i])

\* the channel of each axis in the default channel map
DefaultChannel(n) ==
    CASE n = "roll" -> 0 [] n = "pitch" -> 1 [] n = "throttle" -> 2 [] n = "yaw" -> 3

\* C9: RC-override at its defaults with no overlay firing maps each stick end
\* to end: 1.0 gives 2000 and -1.0 gives 1000 on the axis' channel (throttle on
\* channel 2 included), every value gives a pulse in [1000, 2000], and a sample
\* whose axis value is not below the previous sample's gets a pulse that is
\* not below the previous one.
C9_EndToEnd ==
    [][ RcDefaultPlain' =>
          \A n \in AxisNames :
            LET c == DefaultChannel(n) + 1 IN
            /\ RawAxis(n)' = Num(1) => Frame'[c] = Num(2000)
            /\ RawAxis(n)' = Num(-1) => Frame'[c] = Num(1000)
            /\ FLeq(Num(1000), Frame'[c]) /\ FLeq(Frame'[c], Num(2000))
            /\ (RcDefaultPlain /\ FLeq(RawAxis(n), RawAxis(n)'))
                  => FLeq(Frame[c], Frame'[c]) ]_vars

\* C9 witness: the roll stick fully right gives 2000 on channel 0 and the
\* centred throttle stick 1500 on channel 2.
C9_Witness ==
    /\ RcDefaultPlain
    /\ RawAxis("roll") = Num(1)
    /\ Frame[1] = Num(2000)
    /\ Frame[3] = Num(1500)

\* channel c (1-based) is written by the last rc joy_cb: it is the channel of a
\* calibrated axis or the target of an overlay that fires
Written(c) ==
    \/ \E n \in AxisNames : rc_channels[n].chan + 1 = c
    \/ \E i \in 1..Len(rc_modes) : Fires(rc_modes[i]) /\ rc_modes[i].rc_channel + 1 = c

\* C10: the RC-override frame persists and is mutated in place: the frame is
\* all zero at start-up, the frame published is the persistent one, and a
\* channel that a sample does not write keeps in the published frame the value
\* it had in the frame before (so a value an overlay forced on a channel that
\* is not calibrated stays after the buttons are released).
C10_FramePersists ==
    [][ (mode' = "rc" /\ cb' = "done") =>
          /\ Frame' = rc'
          /\ Len(rc) = NumChannels
          /\ cb = "none" => \A c \in 1..NumChannels : rc[c] = Num(0)
          /\ \A c \in 1..NumChannels : ~Written(c)' => Frame'[c] = rc[c] ]_vars

\* C10 witness: channel 5 still holds the 1800 an overlay forced on it, in a
\* frame published for a sample with both buttons released.
C10_Witness ==
    /\ mode = "rc" /\ cb = "done"
    /\ Index(joy.buttons, 0) = 0 /\ Index(joy.buttons, 1) = 0
    /\ Frame[6] = Num(1800)

====
